---- MODULE Spec2Model ----
(***************************************************************************)
(* Control structure of synthetic_train.py: main()'s training loop and the *)
(* evaluation routine test().  The tensor framework (forward pass,         *)
(* back-propagation, clipping, optimizer update) and the dataset loader    *)
(* are collaborators; their effect on the state this script owns is        *)
(* modelled, their numerics are not.                                       *)
(*                                                                         *)
(* The script is read as the program it evidently is: `hae` is `vae`,      *)
(* `torch.vae(...)` is the checkpoint save, `assert(!x)` is `assert not x`.*)
(***************************************************************************)
EXTENDS Integers, Sequences, FiniteSets, TLC

\* ------------------------------------------------------------- bounds
\* the loop runs (Spec): many epochs, plain corpora, one loss value
MaxEpochs == 10
MaxBatch == 2
MaxNiter == 2
MaxNepoch == 2
MaxTrain == 2
\* the evaluation runs (SpecEval): few epochs, many loss values
MaxEvalEpochs == 3
MaxRc == 2
MaxKl == 1
\* the corpus runs (SpecData): few epochs, corpora of every shape
MaxDataEpochs == 2
MaxDataTrain == 4
MaxTest == 2
MaxLen == 3

\* --------------------------------------------------- program constants
BestLossInit == 10000      \* best_loss = 1e4
kl_weight == 1             \* kl_weight = 1.0
ScheduleParts == 5         \* schedule = args.epochs / 5
MinLen == 2                \* sents_len counts both the start and end symbols

\* ------------------------------------------------------------ numbers
\* A float that is a quotient of two integers is kept as the pair (n, d), d > 0.
Rat(n, d) == [n |-> n, d |-> d]
Less(a, b) == a.n * b.d < b.n * a.d
Leq(a, b) == a.n * b.d <= b.n * a.d
Mul(a, b) == Rat(a.n * b.n, a.d * b.d)
Zero == Rat(0, 1)

Min(a, b) == IF a < b THEN a ELSE b

RECURSIVE SumOver(_, _)
SumOver(f, S) ==
  IF S = {} THEN 0
  ELSE LET x == CHOOSE y \in S : TRUE IN f[x] + SumOver(f, S \ {x})

\* ------------------------------------------------------------- inputs
\* A corpus is its sentences' lengths, each counting the start and end symbols.
\* The loader chooses the order of a pass, so corpora are listed shortest
\* sentence first.
Datasets(max, maxlen) ==
  {d \in UNION {[1..n -> MinLen..maxlen] : n \in 0..max} :
     \A i, j \in DOMAIN d : i < j => d[i] <= d[j]}
Lrs == {Rat(0, 1), Rat(1, 1)}
LrDecays == {Rat(0, 1), Rat(1, 2), Rat(1, 1)}
LoopArgs ==
  [epochs : 1..MaxEpochs, batch_size : 1..MaxBatch, niter : 1..MaxNiter,
   nepoch : 1..MaxNepoch, lr : Lrs, lr_decay : LrDecays]
EvalArgs ==
  [epochs : 1..MaxEvalEpochs, batch_size : {1}, niter : {1},
   nepoch : {1}, lr : Lrs, lr_decay : {Rat(1, 2)}]
DataArgs ==
  [epochs : 1..MaxDataEpochs, batch_size : 1..MaxBatch, niter : {1},
   nepoch : {1}, lr : {Rat(1, 1)}, lr_decay : {Rat(1, 2)}]

\* The per-sequence values vae.loss can return in a run, by mode.  They depend
\* on the parameters, the sentence and the latent sample drawn for it
\* (nsamples=1), so a call draws each from the mode's set.
OneValue == [rc |-> {2}, kl |-> {1}]
ManyValues == [rc |-> (1..MaxRc) \cup {BestLossInit}, kl |-> 0..MaxKl]

VARIABLES
  args, train_data, test_data,       \* command line and the two corpora
  vae_loss,                          \* the values vae.loss can return, by mode
  pc,                                \* position in main() / test()
  epoch, iter_, lr_, optimizer,
  best_loss, best_nll, best_kl, best_ppl, saved,
  report_rec_loss, report_kl_loss, report_num_words, report_num_sents,
  train_iter, batch, loss_rc, loss_kl, loss, nll, kl, ppl,
  params, grad, training,
  t_report_rec_loss, t_report_kl_loss, t_report_num_words, t_report_num_sents,
  test_iter, t_batch,
  out, summary,                      \* what the last step printed / wrote; the final line
  logged, evalLog, decayLog,         \* stdout so far, by kind of line
  nsteps, epochSteps,                \* optimizer.step() calls: total, this epoch
  evalOnParams,                      \* what test() first returned on the current params
  minLoss, minResult                 \* least evaluation loss so far, and its tuple

cfgv == <<args, train_data, test_data, vae_loss>>
bestv == <<best_loss, best_nll, best_kl, best_ppl, saved>>
accv == <<report_rec_loss, report_kl_loss, report_num_words, report_num_sents>>
tacc == <<t_report_rec_loss, t_report_kl_loss, t_report_num_words, t_report_num_sents>>
tlocals == <<tacc, test_iter, t_batch>>
batchv == <<train_iter, batch, loss_rc, loss_kl>>
resv == <<nll, kl, ppl>>
modelv == <<params, grad, training>>
optv == <<lr_, optimizer>>
loopv == <<epoch, iter_>>
stdoutv == <<logged, evalLog, decayLog>>
stepsv == <<nsteps, epochSteps>>
ghostv == <<evalOnParams, minLoss, minResult>>

vars == <<cfgv, pc, loopv, optv, bestv, accv, batchv, loss, resv, modelv,
          tlocals, out, summary, stdoutv, stepsv, ghostv>>

\* ------------------------------------------------------ collaborators
\* MonoTextData.data_iter: the batches of one pass, each of batch_size
\* sentences but possibly the last, in an order the loader chooses.
DataIter(remaining, batch_size) ==
  {b \in SUBSET remaining : Cardinality(b) = Min(batch_size, Cardinality(remaining))}

\* schedule = args.epochs / 5 is a float; (epoch + 1) % schedule == 0 compares a
\* float remainder with zero.  The remainder of an integer a by the double s
\* nearest to epochs/5 is exact, so it is 0 only when a = k*s for an integer k;
\* when 5 does not divide epochs, s is not epochs/5 and no such k exists.
schedule == Rat(args.epochs, ScheduleParts)
FloatModIsZero(a, s) ==
  IF s.n % s.d = 0 THEN a % (s.n \div s.d) = 0 ELSE FALSE

\* --------------------------------------------------- conditions of main
\* Each is preceded by the variant a slip in that line would give.
DecayDueMut(e) == FloatModIsZero(e, schedule)
DecayDue(e) == FloatModIsZero(e + 1, schedule)

EvalDueMut(e) == (e + 1) % args.nepoch = 0
EvalDue(e) == e % args.nepoch = 0

LogDueMut(i) == (i + 1) % args.niter = 0
LogDue(i) == i % args.niter = 0

ImprovesMut(l, best) == Leq(l, best)
ImprovesRev(l, best) == Less(best, l)
Improves(l, best) == Less(l, best)

\* (sents_len - 1).sum()
NumWordsMut(lens, b) == SumOver([i \in b |-> lens[i]], b)
NumWords(lens, b) == SumOver([i \in b |-> lens[i] - 1], b)

\* what a call of vae.loss can return for one sequence in the current mode
LossValues == IF training THEN vae_loss.train ELSE vae_loss.eval

NewOptimizer(lr) == [lr |-> lr, t |-> 0]

\* --------------------------------------------------------------- Init
InitWith(argsets, trainsets, testsets, losses) ==
  /\ args \in argsets
  /\ train_data \in trainsets
  /\ test_data \in testsets
  /\ vae_loss \in losses
  /\ pc = "epoch_start"
  /\ epoch = 0
  /\ iter_ = 0
  /\ lr_ = args.lr
  /\ optimizer = NewOptimizer(args.lr)
  /\ best_loss = Rat(BestLossInit, 1)
  /\ best_nll = Zero /\ best_kl = Zero /\ best_ppl = Zero
  /\ saved = [written |-> FALSE, params |-> 0]
  /\ report_rec_loss = 0 /\ report_kl_loss = 0
  /\ report_num_words = 0 /\ report_num_sents = 0
  /\ train_iter = DOMAIN train_data
  /\ batch = {}
  /\ loss_rc = 0 /\ loss_kl = 0
  /\ loss = Zero /\ nll = Zero /\ kl = Zero /\ ppl = Zero
  /\ params = 0
  /\ grad = [of |-> {}, clipped |-> FALSE]
  /\ training = TRUE
  /\ t_report_rec_loss = 0 /\ t_report_kl_loss = 0
  /\ t_report_num_words = 0 /\ t_report_num_sents = 0
  /\ test_iter = DOMAIN test_data
  /\ t_batch = {}
  /\ out = {}
  /\ summary = <<>>
  /\ logged = <<>> /\ evalLog = <<>> /\ decayLog = <<>>
  /\ nsteps = 0 /\ epochSteps = 0
  /\ evalOnParams = {}
  /\ minLoss = Rat(BestLossInit, 1)
  /\ minResult = <<Zero, Zero, Zero>>

\* ------------------------------------------------------ training loop
\* for epoch in range(args.epochs): reset the four accumulators, open the iterator
EpochStart ==
  /\ pc = "epoch_start"
  /\ epoch < args.epochs
  /\ report_kl_loss' = 0 /\ report_rec_loss' = 0
  /\ report_num_words' = 0 /\ report_num_sents' = 0
  /\ train_iter' = DOMAIN train_data
  /\ epochSteps' = 0
  /\ pc' = "fetch"
  /\ out' = {}
  /\ UNCHANGED <<cfgv, loopv, optv, bestv, batch, loss_rc, loss_kl, loss, resv,
                 modelv, tlocals, summary, stdoutv, nsteps, ghostv>>

\* the next batch of the epoch, counted into num_words and num_sents
TrainFetch ==
  /\ pc = "fetch"
  /\ train_iter # {}
  /\ \E b \in DataIter(train_iter, args.batch_size) :
       /\ batch' = b
       /\ train_iter' = train_iter \ b
       /\ report_num_words' = report_num_words + NumWords(train_data, b)
       /\ report_num_sents' = report_num_sents + Cardinality(b)
  /\ pc' = "zero_grad"
  /\ out' = {}
  /\ UNCHANGED <<cfgv, loopv, optv, bestv, report_rec_loss, report_kl_loss,
                 loss_rc, loss_kl, loss, resv, modelv, tlocals, summary,
                 stdoutv, stepsv, ghostv>>

\* the iterator is exhausted: the inner loop ends
TrainExhausted ==
  /\ pc = "fetch"
  /\ train_iter = {}
  /\ pc' = "eval_check"
  /\ out' = {}
  /\ UNCHANGED <<cfgv, loopv, optv, bestv, accv, batchv, loss, resv, modelv,
                 tlocals, summary, stdoutv, stepsv, ghostv>>

\* variant: the call of optimizer.zero_grad() left out
ZeroGradMut ==
  /\ pc = "zero_grad"
  /\ pc' = "forward"
  /\ out' = {}
  /\ UNCHANGED <<cfgv, loopv, optv, bestv, accv, batchv, loss, resv, modelv,
                 tlocals, summary, stdoutv, stepsv, ghostv>>

\* optimizer.zero_grad()
ZeroGrad ==
  /\ pc = "zero_grad"
  /\ grad' = [of |-> {}, clipped |-> FALSE]
  /\ pc' = "forward"
  /\ out' = {}
  /\ UNCHANGED <<cfgv, loopv, optv, bestv, accv, batchv, loss, resv, params,
                 training, tlocals, summary, stdoutv, stepsv, ghostv>>

\* vae.loss(...), the two sums, loss = (rc + kl_weight * kl) / batch_size,
\* and the two loss accumulators
Forward ==
  /\ pc = "forward"
  /\ \E rc \in [batch -> LossValues.rc], klv \in [batch -> LossValues.kl] :
       /\ loss_rc' = SumOver(rc, batch)
       /\ loss_kl' = SumOver(klv, batch)
  /\ loss' = Rat(loss_rc' + kl_weight * loss_kl', Cardinality(batch))
  /\ report_rec_loss' = report_rec_loss + loss_rc'
  /\ report_kl_loss' = report_kl_loss + loss_kl'
  /\ pc' = "backward"
  /\ out' = {}
  /\ UNCHANGED <<cfgv, loopv, optv, bestv, report_num_words, report_num_sents,
                 train_iter, batch, resv, modelv, tlocals, summary, stdoutv,
                 stepsv, ghostv>>

\* loss.backward(): this batch's gradient is added to whatever .grad holds
Backward ==
  /\ pc = "backward"
  /\ grad' = [of |-> grad.of \cup {iter_}, clipped |-> FALSE]
  /\ pc' = "clip"
  /\ out' = {}
  /\ UNCHANGED <<cfgv, loopv, optv, bestv, accv, batchv, loss, resv, params,
                 training, tlocals, summary, stdoutv, stepsv, ghostv>>

\* torch.nn.utils.clip_grad_norm(vae.parameters(), args.clip_grad)
ClipGrad ==
  /\ pc = "clip"
  /\ grad' = [grad EXCEPT !.clipped = TRUE]
  /\ pc' = "step"
  /\ out' = {}
  /\ UNCHANGED <<cfgv, loopv, optv, bestv, accv, batchv, loss, resv, params,
                 training, tlocals, summary, stdoutv, stepsv, ghostv>>

\* variant: no step for a last batch shorter than batch_size
OptimizerStepMut ==
  /\ pc = "step"
  /\ IF Cardinality(batch) = args.batch_size
       THEN /\ params' = IF optimizer.lr.n = 0 THEN params ELSE params + 1
            /\ optimizer' = [optimizer EXCEPT !.t = @ + 1]
            /\ nsteps' = nsteps + 1
            /\ epochSteps' = epochSteps + 1
            /\ evalOnParams' = IF params' = params THEN evalOnParams ELSE {}
       ELSE UNCHANGED <<params, optimizer, nsteps, epochSteps, evalOnParams>>
  /\ pc' = "log"
  /\ out' = {}
  /\ UNCHANGED <<cfgv, loopv, lr_, bestv, accv, batchv, loss, resv, grad,
                 training, tlocals, summary, stdoutv, minLoss, minResult>>

\* optimizer.step(): with a zero rate the update leaves the parameters as they are
OptimizerStep ==
  /\ pc = "step"
  /\ params' = IF optimizer.lr.n = 0 THEN params ELSE params + 1
  /\ optimizer' = [optimizer EXCEPT !.t = @ + 1]
  /\ nsteps' = nsteps + 1
  /\ epochSteps' = epochSteps + 1
  /\ evalOnParams' = IF params' = params THEN evalOnParams ELSE {}
  /\ pc' = "log"
  /\ out' = {}
  /\ UNCHANGED <<cfgv, loopv, lr_, bestv, accv, batchv, loss, resv, grad,
                 training, tlocals, summary, stdoutv, minLoss, minResult>>

\* if iter_ % args.niter == 0: print(...); then iter_ += 1
Log ==
  /\ pc = "log"
  /\ IF LogDue(iter_)
       THEN logged' = Append(logged, iter_) /\ out' = {"log"}
       ELSE logged' = logged /\ out' = {}
  /\ iter_' = iter_ + 1
  /\ pc' = "fetch"
  /\ UNCHANGED <<cfgv, epoch, optv, bestv, accv, batchv, loss, resv, modelv,
                 tlocals, summary, evalLog, decayLog, stepsv, ghostv>>

\* if epoch % args.nepoch == 0: vae.eval() and the call of test()
EvalCheck ==
  /\ pc = "eval_check"
  /\ IF EvalDue(epoch)
       THEN /\ training' = FALSE
            /\ evalLog' = Append(evalLog, epoch)
            /\ pc' = "test_begin"
            /\ out' = {"testing"}
       ELSE /\ UNCHANGED <<training, evalLog>>
            /\ pc' = "decay"
            /\ out' = {}
  /\ UNCHANGED <<cfgv, loopv, optv, bestv, accv, batchv, loss, resv, params,
                 grad, tlocals, summary, logged, decayLog, stepsv, ghostv>>

\* --------------------------------------------------------------- test()
\* report_kl_loss = report_rec_loss = 0; report_num_words = report_num_sents = 0:
\* test()'s own locals, not main()'s accumulators of the same names
TestBegin ==
  /\ pc = "test_begin"
  /\ t_report_kl_loss' = 0 /\ t_report_rec_loss' = 0
  /\ t_report_num_words' = 0 /\ t_report_num_sents' = 0
  /\ test_iter' = DOMAIN test_data
  /\ pc' = "test_fetch"
  /\ out' = {}
  /\ UNCHANGED <<cfgv, loopv, optv, bestv, accv, batchv, loss, resv, modelv,
                 t_batch, summary, stdoutv, stepsv, ghostv>>

TestFetch ==
  /\ pc = "test_fetch"
  /\ test_iter # {}
  /\ \E b \in DataIter(test_iter, args.batch_size) :
       /\ t_batch' = b
       /\ test_iter' = test_iter \ b
       /\ t_report_num_sents' = t_report_num_sents + Cardinality(b)
       /\ t_report_num_words' = t_report_num_words + NumWords(test_data, b)
  /\ pc' = "test_forward"
  /\ out' = {}
  /\ UNCHANGED <<cfgv, loopv, optv, bestv, accv, batchv, loss, resv, modelv,
                 t_report_rec_loss, t_report_kl_loss, summary, stdoutv, stepsv,
                 ghostv>>

\* variant: test() accumulating into main()'s loss accumulators
TestForwardMut ==
  /\ pc = "test_forward"
  /\ \E rc \in [t_batch -> LossValues.rc], klv \in [t_batch -> LossValues.kl] :
       /\ report_rec_loss' = report_rec_loss + SumOver(rc, t_batch)
       /\ report_kl_loss' = report_kl_loss + SumOver(klv, t_batch)
       /\ t_report_rec_loss' = report_rec_loss'
       /\ t_report_kl_loss' = report_kl_loss'
  /\ pc' = "test_fetch"
  /\ out' = {}
  /\ UNCHANGED <<cfgv, loopv, optv, bestv, report_num_words, report_num_sents,
                 batchv, loss, resv, modelv,
                 t_report_num_words, t_report_num_sents, test_iter, t_batch,
                 summary, stdoutv, stepsv, ghostv>>

\* model.loss(...) under torch.no_grad(), the two sums, the two accumulators
TestForward ==
  /\ pc = "test_forward"
  /\ \E rc \in [t_batch -> LossValues.rc], klv \in [t_batch -> LossValues.kl] :
       /\ t_report_rec_loss' = t_report_rec_loss + SumOver(rc, t_batch)
       /\ t_report_kl_loss' = t_report_kl_loss + SumOver(klv, t_batch)
  /\ pc' = "test_fetch"
  /\ out' = {}
  /\ UNCHANGED <<cfgv, loopv, optv, bestv, accv, batchv, loss, resv, modelv,
                 t_report_num_words, t_report_num_sents, test_iter, t_batch,
                 summary, stdoutv, stepsv, ghostv>>

\* The four returned values.  ppl = np.exp(nll * num_sents / num_words) is kept
\* as its exponent (rec + kl) / num_words.  The frame's locals end with the call.
TestReturn ==
  /\ pc = "test_fetch"
  /\ test_iter = {}
  /\ t_report_num_sents # 0
  /\ loss' = Rat(t_report_rec_loss + t_report_kl_loss, t_report_num_sents)
  /\ nll' = Rat(t_report_kl_loss + t_report_rec_loss, t_report_num_sents)
  /\ kl' = Rat(t_report_kl_loss, t_report_num_sents)
  /\ ppl' = Rat(t_report_kl_loss + t_report_rec_loss, t_report_num_words)
  /\ t_report_kl_loss' = 0 /\ t_report_rec_loss' = 0
  /\ t_report_num_words' = 0 /\ t_report_num_sents' = 0
  /\ t_batch' = {}
  /\ evalOnParams' =
       IF evalOnParams = {} THEN {<<loss', nll', kl', ppl'>>} ELSE evalOnParams
  /\ IF Less(loss', minLoss)
       THEN minLoss' = loss' /\ minResult' = <<nll', kl', ppl'>>
       ELSE UNCHANGED <<minLoss, minResult>>
  /\ pc' = "best"
  /\ out' = {"avg_loss"}
  /\ UNCHANGED <<cfgv, loopv, optv, bestv, accv, batchv, modelv, test_iter,
                 summary, stdoutv, stepsv>>

\* an empty test corpus: the division by report_num_sents raises, the run ends
TestDivByZero ==
  /\ pc = "test_fetch"
  /\ test_iter = {}
  /\ t_report_num_sents = 0
  /\ pc' = "aborted"
  /\ out' = {}
  /\ UNCHANGED <<cfgv, loopv, optv, bestv, accv, batchv, loss, resv, modelv,
                 tlocals, summary, stdoutv, stepsv, ghostv>>

\* ------------------------------------------------- after the evaluation
\* if loss < best_loss: the record and the saved file
BestCheck ==
  /\ pc = "best"
  /\ IF Improves(loss, best_loss)
       THEN /\ best_loss' = loss
            /\ best_nll' = nll
            /\ best_kl' = kl
            /\ best_ppl' = ppl
            /\ saved' = [written |-> TRUE, params |-> params]
            /\ out' = {"update best loss", "save"}
       ELSE /\ UNCHANGED bestv
            /\ out' = {}
  /\ pc' = "vae_train"
  /\ UNCHANGED <<cfgv, loopv, optv, accv, batchv, loss, resv, modelv, tlocals,
                 summary, stdoutv, stepsv, ghostv>>

\* variant: vae.train() indented into the if of the best record
VaeTrainMut ==
  /\ pc = "vae_train"
  /\ training' = IF "save" \in out THEN TRUE ELSE training
  /\ pc' = "decay"
  /\ out' = {}
  /\ UNCHANGED <<cfgv, loopv, optv, bestv, accv, batchv, loss, resv, params,
                 grad, tlocals, summary, stdoutv, stepsv, ghostv>>

\* vae.train()
VaeTrain ==
  /\ pc = "vae_train"
  /\ training' = TRUE
  /\ pc' = "decay"
  /\ out' = {}
  /\ UNCHANGED <<cfgv, loopv, optv, bestv, accv, batchv, loss, resv, params,
                 grad, tlocals, summary, stdoutv, stepsv, ghostv>>

\* if (epoch + 1) % schedule == 0: the new rate and a fresh optimizer; then the
\* loop goes to the next epoch
LrDecay ==
  /\ pc = "decay"
  /\ IF DecayDue(epoch)
       THEN /\ lr_' = Mul(lr_, args.lr_decay)
            /\ optimizer' = NewOptimizer(lr_')
            /\ decayLog' = Append(decayLog, epoch)
            /\ out' = {"update lr"}
       ELSE /\ UNCHANGED <<optv, decayLog>>
            /\ out' = {}
  /\ epoch' = epoch + 1
  /\ pc' = "epoch_start"
  /\ UNCHANGED <<cfgv, iter_, bestv, accv, batchv, loss, resv, modelv, tlocals,
                 summary, logged, evalLog, stepsv, ghostv>>

\* the loop is over: print('best_loss: ..., kl: ..., nll: ..., ppl: ...')
Summary ==
  /\ pc = "epoch_start"
  /\ epoch >= args.epochs
  /\ summary' = <<best_loss, best_kl, best_nll, best_ppl>>
  /\ pc' = "done"
  /\ out' = {"best_loss"}
  /\ UNCHANGED <<cfgv, loopv, optv, bestv, accv, batchv, loss, resv, modelv,
                 tlocals, stdoutv, stepsv, ghostv>>

Next ==
  \/ EpochStart \/ TrainFetch \/ TrainExhausted \/ ZeroGrad \/ Forward
  \/ Backward \/ ClipGrad \/ OptimizerStep \/ Log \/ EvalCheck
  \/ TestBegin \/ TestFetch \/ TestForward \/ TestReturn \/ TestDivByZero
  \/ BestCheck \/ VaeTrain \/ LrDecay \/ Summary

Init ==
  InitWith(LoopArgs, Datasets(MaxTrain, MinLen), Datasets(1, MinLen),
           {[train |-> OneValue, eval |-> OneValue]})

InitEval ==
  InitWith(EvalArgs, Datasets(1, MinLen), Datasets(1, MinLen),
           {[train |-> OneValue, eval |-> ManyValues]})

InitData ==
  InitWith(DataArgs, Datasets(MaxDataTrain, MaxLen), Datasets(MaxTest, MaxLen),
           {[train |-> OneValue, eval |-> OneValue]})

Spec == Init /\ [][Next]_vars
SpecEval == InitEval /\ [][Next]_vars
SpecData == InitData /\ [][Next]_vars

\* =============================================================== claims
TrainPcs == {"fetch", "zero_grad", "forward", "backward", "clip", "step", "log"}
TestPcs == {"test_begin", "test_fetch", "test_forward"}
AfterTestPcs == {"best", "vae_train"}

\* <<0, k, 2k, ...>>: the multiples of k below n, ascending
MultiplesBelow(n, k) == [j \in 1..((n + k - 1) \div k) |-> (j - 1) * k]

RECURSIVE Pow(_, _)
Pow(b, k) == IF k = 0 THEN 1 ELSE b * Pow(b, k - 1)

Range(q) == {q[i] : i \in DOMAIN q}

\* --------------------------------------------------------------- C1
\* C1: right after an evaluation, the best record (best_loss, best_nll, best_kl,
\* best_ppl) becomes the returned tuple and the model is saved when the returned
\* loss is strictly below best_loss; on a tie or a larger loss the record is left
\* as it is and nothing is saved; no other step touches the record or saves.
C1_BestUpdatedIffStrictlyLess ==
  [][ /\ (pc = "best" /\ Less(loss, best_loss)) =>
           /\ <<best_loss', best_nll', best_kl', best_ppl'>> = <<loss, nll, kl, ppl>>
           /\ saved' = [written |-> TRUE, params |-> params]
           /\ "save" \in out'
      /\ (pc = "best" /\ ~Less(loss, best_loss)) =>
           /\ UNCHANGED bestv
           /\ "save" \notin out'
      /\ pc # "best" => (UNCHANGED bestv /\ "save" \notin out') ]_vars

\* a tie with the best loss, with another kl than the recorded one, saved nothing
C1_Witness ==
  /\ pc = "vae_train"
  /\ saved.written
  /\ loss = best_loss
  /\ kl # best_kl
  /\ out = {}

\* --------------------------------------------------------------- C10
\* C10: outside the moment between an evaluation's return and the comparison,
\* best_loss is the least of 1e4 and the evaluation losses returned so far, and
\* (best_nll, best_kl, best_ppl) are those of the earliest evaluation attaining
\* it; best_loss never increases; when no evaluation returned a loss below 1e4
\* nothing is ever saved and the summary line is (1e4, 0, 0, 0).
C10_BestIsRunningMin ==
  /\ [](pc # "best" =>
          /\ best_loss = minLoss
          /\ <<best_nll, best_kl, best_ppl>> = minResult)
  /\ [][Leq(best_loss', best_loss)]_vars
  /\ [](minLoss = Rat(BestLossInit, 1) => ~saved.written)
  /\ [](pc = "done" /\ minLoss = Rat(BestLossInit, 1) =>
          summary = <<Rat(BestLossInit, 1), Zero, Zero, Zero>>)

\* three evaluations, the record set by an earlier one than the last, which was worse
C10_Witness ==
  /\ pc = "done"
  /\ Len(evalLog) = 3
  /\ saved.written
  /\ saved.params < params
  /\ Less(best_loss, loss)
  /\ summary = <<best_loss, best_kl, best_nll, best_ppl>>

\* --------------------------------------------------------------- C6
\* C6 as stated: a call of test() leaves the parameters, the optimizer, the
\* learning rate, main()'s accumulators, the step counter and the best record
\* unchanged, and a call on parameters already evaluated returns the tuple the
\* earlier call returned.
C6_Original ==
  [][ /\ pc \in TestPcs => UNCHANGED <<params, optv, accv, iter_, bestv>>
      /\ (pc = "test_fetch" /\ pc' = "best" /\ evalOnParams # {}) =>
           <<loss', nll', kl', ppl'>> \in evalOnParams ]_vars

\* C6 amended: a call of test() leaves the parameters, the optimizer, the
\* learning rate, main()'s accumulators, the step counter and the best record
\* unchanged (the returned tuple depends on the latent samples the call draws).
C6_EvaluationFrame ==
  [][(pc \in TestPcs) => UNCHANGED <<params, optv, accv, iter_, bestv>>]_vars

\* a second evaluation of the same parameters returned another tuple
C6_Witness ==
  /\ pc = "best"
  /\ evalOnParams # {}
  /\ <<loss, nll, kl, ppl>> \notin evalOnParams
  /\ Len(evalLog) >= 2

\* --------------------------------------------------------------- C9
\* C9: the VAE is in inference mode throughout every call of test() and until
\* vae.train(), and in training mode everywhere else, in particular after an
\* evaluation that did not update the best record; every optimizer step is taken
\* in training mode.
C9_Modes ==
  /\ [](pc \in TestPcs \cup AfterTestPcs => ~training)
  /\ [](pc \in TrainPcs \cup {"epoch_start", "eval_check", "decay", "done"} => training)
  /\ [][nsteps' # nsteps => (pc = "step" /\ training /\ training')]_vars

\* back in training mode after a second evaluation, which saved nothing
C9_Witness ==
  /\ pc = "decay"
  /\ training
  /\ Len(evalLog) >= 2
  /\ evalLog[Len(evalLog)] = epoch
  /\ saved.written
  /\ saved.params # params

\* --------------------------------------------------------------- C8
\* C8: within a batch the gradient is empty when the loss is computed and when it
\* is back-propagated, holds this batch's gradient alone and unclipped before the
\* clip, and this batch's gradient alone and clipped when the optimizer steps;
\* the loss is (rec + 1.0 * kl) / batch_size; an optimizer step is only ever
\* taken from there.
C8_BatchOrder ==
  /\ [](pc \in {"forward", "backward"} => grad.of = {})
  /\ [](pc = "clip" => grad = [of |-> {iter_}, clipped |-> FALSE])
  /\ [](pc = "step" => grad = [of |-> {iter_}, clipped |-> TRUE])
  /\ [](pc \in {"backward", "clip", "step", "log"} =>
          loss = Rat(loss_rc + loss_kl, Cardinality(batch)))
  /\ [][nsteps' # nsteps =>
          /\ nsteps' = nsteps + 1
          /\ pc = "step"
          /\ grad = [of |-> {iter_}, clipped |-> TRUE] ]_vars

\* the second batch of a run of two-sentence batches has been stepped
C8_Witness ==
  /\ pc = "log"
  /\ nsteps = 2
  /\ iter_ = 1
  /\ Cardinality(batch) = 2
  /\ grad = [of |-> {1}, clipped |-> TRUE]

\* --------------------------------------------------------------- C7
\* C7: iter_ counts the batches whose log check is done, over all epochs; the
\* log lines printed so far are those of the multiples of niter below iter_, in
\* order; a step prints a log line exactly when it is the log check of a batch
\* whose iter_ is a multiple of niter; once a batch is through, a line is printed.
C7_Logs ==
  /\ [](iter_ = IF pc = "log" THEN nsteps - 1 ELSE nsteps)
  /\ [](logged = MultiplesBelow(iter_, args.niter))
  /\ [](iter_ >= 1 => Len(logged) >= 1)
  /\ [][("log" \in out') <=> (pc = "log" /\ iter_ % args.niter = 0)]_vars

\* one batch per epoch, niter = 2: the second line is printed in the third epoch
C7_Witness ==
  /\ Len(train_data) = 1
  /\ args.niter = 2
  /\ epoch = 2
  /\ logged = <<0, 2>>
  /\ out = {"log"}

\* --------------------------------------------------------------- C4
\* C4: the evaluations started so far are those of the epochs divisible by
\* nepoch among the epochs whose check is done, once each and in order; an
\* evaluation runs after its epoch's last batch and before its epoch's decay.
EpochsChecked ==
  IF pc \in TrainPcs \cup {"epoch_start", "eval_check", "done"}
    THEN epoch ELSE epoch + 1

C4_Evaluations ==
  /\ evalLog = MultiplesBelow(EpochsChecked, args.nepoch)
  /\ pc \in TestPcs \cup AfterTestPcs =>
       /\ train_iter = {}
       /\ evalLog[Len(evalLog)] = epoch
       /\ \A i \in DOMAIN decayLog : decayLog[i] < epoch
  /\ (pc = "done" /\ args.epochs = 1) => evalLog = <<0>>

\* three epochs, nepoch = 2: evaluated after epochs 0 and 2, not after epoch 1
C4_Witness ==
  /\ pc = "done"
  /\ args.epochs = 3
  /\ args.nepoch = 2
  /\ evalLog = <<0, 2>>

\* --------------------------------------------------------------- C2
\* C2: the epochs at whose end the rate was decayed are those e with
\* (e + 1) % (epochs / 5) == 0 in float arithmetic (5 divides epochs and epochs/5
\* divides e + 1), once each; the rate is lr * lr_decay^(number of decays) and
\* is the optimizer's; with 0 <= lr_decay <= 1 and lr >= 0 it never increases.
DecayEpochs(n) ==
  {e \in 0..(n - 1) :
     /\ args.epochs % 5 = 0
     /\ (e + 1) % (args.epochs \div 5) = 0}

NumBatches == (Len(train_data) + args.batch_size - 1) \div args.batch_size

C3_Steps ==
  /\ pc \in {"eval_check", "decay"} \cup TestPcs \cup AfterTestPcs =>
       epochSteps = NumBatches
  /\ pc \in {"epoch_start", "done"} => nsteps = epoch * NumBatches
  /\ pc = "done" => nsteps = args.epochs * NumBatches

\* one epoch, batches of two, four sentences: two steps
C3_Witness ==
  /\ pc = "done"
  /\ args.epochs = 1
  /\ args.batch_size = 2
  /\ Len(train_data) = 4
  /\ nsteps = 2

\* --------------------------------------------------------------- C5
\* C5: in main() and in test(), num_words is the sum of (length - 1) over the
\* sentences fetched so far in this epoch / this call and num_sents is their
\* number; while nothing is fetched the two loss accumulators are zero as well.
Fetched(data, iter) == (DOMAIN data) \ iter

C5_Accumulators ==
  /\ LET P == Fetched(train_data, train_iter) IN
       /\ report_num_words = SumOver([i \in P |-> train_data[i] - 1], P)
       /\ report_num_sents = Cardinality(P)
       /\ P = {} => (report_rec_loss = 0 /\ report_kl_loss = 0)
  /\ pc \in {"test_fetch", "test_forward"} =>
       LET P == Fetched(test_data, test_iter) IN
         /\ t_report_num_words = SumOver([i \in P |-> test_data[i] - 1], P)
         /\ t_report_num_sents = Cardinality(P)
         /\ P = {} => (t_report_rec_loss = 0 /\ t_report_kl_loss = 0)

\* the second epoch's evaluation has fetched its two sentences, of lengths 2 and 3
C5_Witness ==
  /\ epoch = 1
  /\ pc = "test_fetch"
  /\ test_iter = {}
  /\ Range(test_data) = {2, 3}
  /\ t_report_num_sents = 2
  /\ t_report_num_words = 3
  /\ report_num_sents >= 2

====
